---- MODULE Spec2Model ----
(***************************************************************************)
(* Model of the tool router of spotify-mcp (src/spotify_mcp/server.py):    *)
(* the five tool functions SpotifyPlayback, SpotifySearch, SpotifyQueue,   *)
(* SpotifyGetInfo and SpotifyPlaylist, the adapter (spotify_client) they   *)
(* call, the logger they write to and the strings they return.             *)
(*                                                                         *)
(* Python values are tagged records [t, v]; Python strings are TLA+        *)
(* strings, so that response texts are compared character by character.    *)
(***************************************************************************)
EXTENDS Integers, Sequences, FiniteSets, TLC

(***************************************************************************)
(* Bounds of the model.                                                    *)
(***************************************************************************)
\* longest list of track ids a caller passes
MaxLen == 1
\* largest num_skips a caller passes
MaxSkips == 2
\* tool invocations in one behaviour
MaxInvocations == 2

(***************************************************************************)
(* Python values.                                                          *)
(***************************************************************************)
None == [t |-> "none", v |-> ""]
PyS(s) == [t |-> "str", v |-> s]
PyInt(n) == [t |-> "int", v |-> n]
PyList(q) == [t |-> "list", v |-> q]
\* a flat dict, as the ordered sequence of its <<key, value>> string pairs
PyDict(kv) == [t |-> "dict", v |-> kv]
\* an object json cannot serialize (and that has no .get)
Obj == [t |-> "object", v |-> "Response"]

\* bool(x): what `not x`, `x or d` and `if x:` test
Truthy(x) ==
  CASE x.t = "none" -> FALSE
    [] x.t = "str" -> x.v # ""
    [] x.t = "int" -> x.v # 0
    [] x.t = "list" -> x.v # <<>>
    [] x.t = "dict" -> x.v # <<>>
    [] OTHER -> TRUE

\* x or d
Or(x, d) == IF Truthy(x) THEN x ELSE d

Digit(d) == SubSeq("0123456789", d + 1, d + 1)

RECURSIVE NatStr(_)
NatStr(n) == IF n < 10 THEN Digit(n) ELSE NatStr(n \div 10) \o Digit(n % 10)

RECURSIVE ReprList(_)
\* str(x) of the values an f-string formats; a str inside a list shows its repr
PyStr(x) ==
  CASE x.t = "none" -> "None"
    [] x.t = "str" -> x.v
    [] x.t = "int" -> IF x.v < 0 THEN "-" \o NatStr(-x.v) ELSE NatStr(x.v)
    [] x.t = "list" -> "[" \o ReprList(x.v) \o "]"
    [] OTHER -> "<" \o x.v \o ">"
ReprList(q) ==
  IF q = <<>> THEN ""
  ELSE "'" \o Head(q).v \o "'" \o (IF Len(q) = 1 THEN "" ELSE ", " \o ReprList(Tail(q)))

(***************************************************************************)
(* json.loads, on texts over Alphabet: arrays, strings without escapes,    *)
(* non-negative integers, blanks.  A text that is no JSON document makes   *)
(* json.loads raise JSONDecodeError: ok = FALSE.                           *)
(***************************************************************************)
Ch(s, i) == IF i >= 1 /\ i <= Len(s) THEN SubSeq(s, i, i) ELSE ""

IsDigit(c) == c \in {"0", "1", "2", "3", "4", "5", "6", "7", "8", "9"}

DigitVal(c) == CHOOSE d \in 0..9 : Digit(d) = c

RECURSIVE SkipWs(_, _)
SkipWs(s, i) == IF Ch(s, i) = " " THEN SkipWs(s, i + 1) ELSE i

\* index of the first quote at or after i, 0 when there is none
RECURSIVE FindQuote(_, _)
FindQuote(s, i) ==
  IF i > Len(s) THEN 0
  ELSE IF Ch(s, i) = "\"" THEN i ELSE FindQuote(s, i + 1)

\* end of the digit run that starts at i (exclusive)
RECURSIVE DigitsEnd(_, _)
DigitsEnd(s, i) == IF IsDigit(Ch(s, i)) THEN DigitsEnd(s, i + 1) ELSE i

RECURSIVE DigitsVal(_, _, _, _)
DigitsVal(s, i, j, acc) ==
  IF i >= j THEN acc ELSE DigitsVal(s, i + 1, j, 10 * acc + DigitVal(Ch(s, i)))

ParseFail == [ok |-> FALSE, val |-> None, next |-> 0]

RECURSIVE ParseValue(_, _)
RECURSIVE ParseElems(_, _, _)
\* the JSON value that starts at index i of s
ParseValue(s, i) ==
  LET c == Ch(s, i) IN
  CASE c = "\"" ->
         LET j == FindQuote(s, i + 1) IN
         IF j = 0 THEN ParseFail
         ELSE [ok |-> TRUE, val |-> PyS(SubSeq(s, i + 1, j - 1)), next |-> j + 1]
    [] c = "0" -> [ok |-> TRUE, val |-> PyInt(0), next |-> i + 1]
    [] IsDigit(c) /\ c # "0" ->
         LET j == DigitsEnd(s, i) IN
         [ok |-> TRUE, val |-> PyInt(DigitsVal(s, i, j, 0)), next |-> j]
    [] c = "[" ->
         LET j == SkipWs(s, i + 1) IN
         IF Ch(s, j) = "]" THEN [ok |-> TRUE, val |-> PyList(<<>>), next |-> j + 1]
         ELSE ParseElems(s, j, <<>>)
    [] OTHER -> ParseFail
\* the elements of an array from index i on, acc being those already read
ParseElems(s, i, acc) ==
  LET e == ParseValue(s, i) IN
  IF ~e.ok THEN ParseFail
  ELSE LET k == SkipWs(s, e.next) IN
       CASE Ch(s, k) = "," -> ParseElems(s, SkipWs(s, k + 1), Append(acc, e.val))
         [] Ch(s, k) = "]" ->
              [ok |-> TRUE, val |-> PyList(Append(acc, e.val)), next |-> k + 1]
         [] OTHER -> ParseFail

JsonLoads(s) ==
  LET e == ParseValue(s, SkipWs(s, 1)) IN
  IF ~e.ok THEN [ok |-> FALSE, val |-> None]
  ELSE IF SkipWs(s, e.next) # Len(s) + 1 THEN [ok |-> FALSE, val |-> None]
  ELSE [ok |-> TRUE, val |-> e.val]

(***************************************************************************)
(* json.dumps(x, indent=2) of the values the adapter returns.  ok = FALSE  *)
(* is the TypeError json raises on an object it cannot serialize.          *)
(***************************************************************************)
RECURSIVE DumpItems(_)
\* the members of a non-empty dict, one per line at indent 2
DumpItems(kv) ==
  "\n  \"" \o Head(kv)[1] \o "\": \"" \o Head(kv)[2] \o "\""
    \o (IF Len(kv) = 1 THEN "" ELSE "," \o DumpItems(Tail(kv)))

RECURSIVE DumpElems(_)
\* the elements of a non-empty list of str, one per line at indent 2
DumpElems(q) ==
  "\n  \"" \o Head(q).v \o "\""
    \o (IF Len(q) = 1 THEN "" ELSE "," \o DumpElems(Tail(q)))

JsonDumps(x) ==
  CASE x.t = "none" -> [ok |-> TRUE, text |-> "null", msg |-> ""]
    [] x.t = "str" -> [ok |-> TRUE, text |-> "\"" \o x.v \o "\"", msg |-> ""]
    [] x.t = "int" -> [ok |-> TRUE, text |-> PyStr(x), msg |-> ""]
    [] x.t = "list" ->
         [ok |-> TRUE,
          text |-> IF x.v = <<>> THEN "[]" ELSE "[" \o DumpElems(x.v) \o "\n]",
          msg |-> ""]
    [] x.t = "dict" ->
         [ok |-> TRUE,
          text |-> IF x.v = <<>> THEN "{}" ELSE "{" \o DumpItems(x.v) \o "\n}",
          msg |-> ""]
    [] OTHER ->
         [ok |-> FALSE, text |-> "",
          msg |-> "Object of type " \o x.v \o " is not JSON serializable"]

\* d.get(key, default) of a flat dict
RECURSIVE DictGet(_, _, _)
DictGet(kv, key, default) ==
  IF kv = <<>> THEN default
  ELSE IF Head(kv)[1] = key THEN Head(kv)[2] ELSE DictGet(Tail(kv), key, default)

(***************************************************************************)
(* The logger, and what a piece of a tool function comes to: it returns a  *)
(* string, it calls one adapter method, or it raises.                      *)
(***************************************************************************)
Info(m) == [level |-> "INFO", msg |-> m]
Error(m) == [level |-> "ERROR", msg |-> m]

NoExc == [cls |-> "", msg |-> ""]
Exc(c, m) == [cls |-> c, msg |-> m]

Ret(logs, s) ==
  [kind |-> "return", logs |-> logs, resp |-> s, method |-> "", args |-> <<>>,
   exc |-> NoExc]
Call(logs, m, a) ==
  [kind |-> "call", logs |-> logs, resp |-> "", method |-> m, args |-> a,
   exc |-> NoExc]
Raise(logs, e) ==
  [kind |-> "raise", logs |-> logs, resp |-> "", method |-> "", args |-> <<>>,
   exc |-> e]

\* isinstance(e, SpotifyException); every class of the model is an Exception
IsSpotifyException(e) == e.cls = "SpotifyException"

(***************************************************************************)
(* SpotifyPlayback.  PlaybackBody is the function up to its adapter call,  *)
(* PlaybackResume the rest of the try block once the adapter has returned, *)
(* PlaybackExcept the two except clauses.                                  *)
(***************************************************************************)
DefaultSkips == 1

\* faulty variant: the message forgets the skip action
PlaybackUnknown_NoSkip(action) ==
  "Unknown action: " \o action \o ". Supported actions are: get, start, pause."

PlaybackUnknown(action) ==
  "Unknown action: " \o action \o ". Supported actions are: get, start, pause, skip."

PlaybackBody(action, spotify_uri, num_skips) ==
  LET entry == <<Info("Playback action: " \o action
                      \o " with arguments: spotify_uri=" \o PyStr(spotify_uri)
                      \o ", num_skips=" \o PyStr(num_skips))>> IN
  CASE action = "get" ->
         Call(entry \o <<Info("Attempting to get current track")>>,
              "get_current_track", <<>>)
    [] action = "start" ->
         Call(entry \o <<Info("Starting playback with spotify_uri: "
                              \o PyStr(spotify_uri))>>,
              "start_playback", <<<<"spotify_uri", spotify_uri>>>>)
    [] action = "pause" ->
         Call(entry \o <<Info("Attempting to pause playback")>>,
              "pause_playback", <<>>)
    [] action = "skip" ->
         LET n == Or(num_skips, PyInt(DefaultSkips)) IN
         Call(entry \o <<Info("Skipping " \o PyStr(n) \o " tracks.")>>,
              "skip_track", <<<<"n", n>>>>)
    [] OTHER ->
         Ret(entry, PlaybackUnknown(action))

PlaybackResume(action, result) ==
  CASE action = "get" ->
         IF Truthy(result)
         THEN IF result.t # "dict"
              THEN Raise(<<>>, Exc("AttributeError",
                     "'" \o result.v \o "' object has no attribute 'get'"))
              ELSE Ret(<<Info("Current track retrieved: "
                              \o DictGet(result.v, "name", "Unknown"))>>,
                       JsonDumps(result).text)
         ELSE Ret(<<Info("No track currently playing")>>, "No track playing.")
    [] action = "start" ->
         Ret(<<Info("Playback started successfully")>>, "Playback starting.")
    [] action = "pause" ->
         Ret(<<Info("Playback paused successfully")>>, "Playback paused.")
    [] OTHER -> Ret(<<>>, "Skipped to next track.")

PlaybackExcept(e) ==
  IF IsSpotifyException(e)
  THEN Ret(<<Error("Spotify Client error occurred: " \o e.msg)>>,
           "An error occurred with the Spotify Client: " \o e.msg)
  ELSE Ret(<<Error("Unexpected error occurred: " \o e.msg)>>,
           "Unexpected error occurred: " \o e.msg)

(***************************************************************************)
(* SpotifySearch.                                                          *)
(***************************************************************************)
DefaultLimit == 10

\* json.dumps(result, indent=2) as the last statement of a try block
DumpOrRaise(logs, result) ==
  LET d == JsonDumps(result) IN
  IF d.ok THEN Ret(logs, d.text) ELSE Raise(logs, Exc("TypeError", d.msg))

SearchBody(query, qtype, limit) ==
  Call(<<Info("Performing search with query: " \o query \o ", type: "
              \o PyStr(qtype) \o ", limit: " \o PyStr(limit))>>,
       "search",
       <<<<"query", PyS(query)>>, <<"qtype", Or(qtype, PyS("track"))>>,
         <<"limit", Or(limit, PyInt(DefaultLimit))>>>>)

SearchResume(result) ==
  DumpOrRaise(<<Info("Search completed successfully.")>>, result)

\* faulty variant: the vendor clause logs the error twice
SearchExcept_LogTwice(e) ==
  IF IsSpotifyException(e)
  THEN Ret(<<Error("Spotify Client error occurred: " \o e.msg),
             Error("Spotify Client error occurred: " \o e.msg)>>,
           "An error occurred with the Spotify Client: " \o e.msg)
  ELSE Ret(<<Error("Unexpected error occurred: " \o e.msg)>>,
           "Unexpected error occurred: " \o e.msg)

SearchExcept(e) ==
  IF IsSpotifyException(e)
  THEN Ret(<<Error("Spotify Client error occurred: " \o e.msg)>>,
           "An error occurred with the Spotify Client: " \o e.msg)
  ELSE Ret(<<Error("Unexpected error occurred: " \o e.msg)>>,
           "Unexpected error occurred: " \o e.msg)

(***************************************************************************)
(* SpotifyQueue.                                                           *)
(***************************************************************************)
\* faulty variant: the add case tests `track_id is None`
QueueBody_IsNone(action, track_id) ==
  LET entry == <<Info("Queue operation with action: " \o action
                      \o ", track_id: " \o PyStr(track_id))>> IN
  CASE action = "add" ->
         IF track_id = None
         THEN Ret(entry \o <<Error("track_id is required for add to queue.")>>,
                  "track_id is required for add action")
         ELSE Call(entry, "add_to_queue", <<<<"0", track_id>>>>)
    [] action = "get" -> Call(entry, "get_queue", <<>>)
    [] OTHER ->
         Ret(entry, "Unknown queue action: " \o action
                    \o ". Supported actions are: add and get.")

QueueBody(action, track_id) ==
  LET entry == <<Info("Queue operation with action: " \o action
                      \o ", track_id: " \o PyStr(track_id))>> IN
  CASE action = "add" ->
         IF ~Truthy(track_id)
         THEN Ret(entry \o <<Error("track_id is required for add to queue.")>>,
                  "track_id is required for add action")
         ELSE Call(entry, "add_to_queue", <<<<"0", track_id>>>>)
    [] action = "get" -> Call(entry, "get_queue", <<>>)
    [] OTHER ->
         Ret(entry, "Unknown queue action: " \o action
                    \o ". Supported actions are: add and get.")

QueueResume(action, result) ==
  IF action = "add" THEN Ret(<<>>, "Track added to queue.")
  ELSE DumpOrRaise(<<>>, result)

\* faulty variant: one except clause for every exception
QueueExcept_OneClause(e) ==
  Ret(<<Error("Unexpected error occurred: " \o e.msg)>>,
      "Unexpected error occurred: " \o e.msg)

QueueExcept(e) ==
  IF IsSpotifyException(e)
  THEN Ret(<<Error("Spotify Client error occurred: " \o e.msg)>>,
           "An error occurred with the Spotify Client: " \o e.msg)
  ELSE Ret(<<Error("Unexpected error occurred: " \o e.msg)>>,
           "Unexpected error occurred: " \o e.msg)

(***************************************************************************)
(* SpotifyGetInfo.                                                         *)
(***************************************************************************)
GetInfoBody(item_uri) ==
  Call(<<Info("Getting item info for uri: " \o item_uri)>>,
       "get_info", <<<<"item_uri", PyS(item_uri)>>>>)

GetInfoResume(result) == DumpOrRaise(<<>>, result)

\* faulty variant: a vendor error makes the tool call the adapter again
GetInfoExcept_Retry(e) ==
  IF IsSpotifyException(e)
  THEN Call(<<Error("Spotify Client error occurred: " \o e.msg)>>, "get_info", <<>>)
  ELSE Ret(<<Error("Unexpected error occurred: " \o e.msg)>>,
           "Unexpected error occurred: " \o e.msg)

GetInfoExcept(e) ==
  IF IsSpotifyException(e)
  THEN Ret(<<Error("Spotify Client error occurred: " \o e.msg)>>,
           "An error occurred with the Spotify Client: " \o e.msg)
  ELSE Ret(<<Error("Unexpected error occurred: " \o e.msg)>>,
           "Unexpected error occurred: " \o e.msg)

(***************************************************************************)
(* SpotifyPlaylist.                                                        *)
(***************************************************************************)
\* faulty variant: the JSONDecodeError of json.loads is not caught where it is raised
TracksCall_NoCatch(logs, method, playlist_id, track_ids) ==
  IF track_ids.t = "str"
  THEN LET parsed == JsonLoads(track_ids.v) IN
       IF ~parsed.ok
       THEN Raise(logs, Exc("JSONDecodeError", "Expecting value"))
       ELSE Call(logs, method,
                 <<<<"playlist_id", playlist_id>>, <<"track_ids", parsed.val>>>>)
  ELSE Call(logs, method,
            <<<<"playlist_id", playlist_id>>, <<"track_ids", track_ids>>>>)

\* the add_tracks and remove_tracks cases after their required-field test:
\* a str is parsed as JSON, then the adapter method is called
TracksCall(logs, method, playlist_id, track_ids) ==
  IF track_ids.t = "str"
  THEN LET parsed == JsonLoads(track_ids.v) IN
       IF ~parsed.ok
       THEN Ret(logs, "Error: track_ids must be a list or a valid JSON array.")
       ELSE Call(logs, method,
                 <<<<"playlist_id", playlist_id>>, <<"track_ids", parsed.val>>>>)
  ELSE Call(logs, method,
            <<<<"playlist_id", playlist_id>>, <<"track_ids", track_ids>>>>)

\* faulty variant: name is None and description is None
DetailsMissing_IsNone(name, description) == name = None /\ description = None

\* not name and not description
DetailsMissing(name, description) == ~Truthy(name) /\ ~Truthy(description)

PlaylistBody(action, playlist_id, track_ids, name, description) ==
  LET entry == <<Info("Playlist operation with action: " \o action)>> IN
  CASE action = "get" ->
         Call(entry \o <<Info("Getting current user's playlists")>>,
              "get_current_user_playlists", <<>>)
    [] action = "get_tracks" ->
         IF ~Truthy(playlist_id)
         THEN Ret(entry \o <<Error("playlist_id is required for get_tracks action.")>>,
                  "playlist_id is required for get_tracks action.")
         ELSE Call(entry \o <<Info("Getting tracks in playlist: "
                                   \o PyStr(playlist_id))>>,
                   "get_playlist_tracks", <<<<"0", playlist_id>>>>)
    [] action = "add_tracks" ->
         IF ~Truthy(playlist_id) \/ ~Truthy(track_ids)
         THEN Ret(entry,
                  "playlist_id and track_ids are required for add_tracks action.")
         ELSE TracksCall(entry \o <<Info("Adding tracks to playlist: "
                                         \o PyStr(playlist_id))>>,
                         "add_tracks_to_playlist", playlist_id, track_ids)
    [] action = "remove_tracks" ->
         IF ~Truthy(playlist_id) \/ ~Truthy(track_ids)
         THEN Ret(entry,
                  "playlist_id and track_ids are required for remove_tracks action.")
         ELSE TracksCall(entry \o <<Info("Removing tracks from playlist: "
                                         \o PyStr(playlist_id))>>,
                         "remove_tracks_from_playlist", playlist_id, track_ids)
    [] action = "change_details" ->
         IF ~Truthy(playlist_id)
         THEN Ret(entry, "playlist_id is required for change_details action.")
         ELSE IF DetailsMissing(name, description)
         THEN Ret(entry, "At least one of name or description is required.")
         ELSE Call(entry \o <<Info("Changing playlist details for: "
                                   \o PyStr(playlist_id))>>,
                   "change_playlist_details",
                   <<<<"playlist_id", playlist_id>>, <<"name", name>>,
                     <<"description", description>>>>)
    [] OTHER ->
         Ret(entry, "Unknown playlist action: " \o action
                    \o ". Supported actions are: get, get_tracks, add_tracks, remove_tracks, change_details.")

PlaylistResume(action, result) ==
  CASE action \in {"get", "get_tracks"} -> DumpOrRaise(<<>>, result)
    [] action = "add_tracks" -> Ret(<<>>, "Tracks added to playlist.")
    [] action = "remove_tracks" -> Ret(<<>>, "Tracks removed from playlist.")
    [] OTHER -> Ret(<<>>, "Playlist details changed.")

\* faulty variant: the `except Exception` clause is missing
PlaylistExcept_VendorOnly(e) ==
  IF IsSpotifyException(e)
  THEN Ret(<<Error("Spotify Client error occurred: " \o e.msg)>>,
           "An error occurred with the Spotify Client: " \o e.msg)
  ELSE Raise(<<>>, e)

PlaylistExcept(e) ==
  IF IsSpotifyException(e)
  THEN Ret(<<Error("Spotify Client error occurred: " \o e.msg)>>,
           "An error occurred with the Spotify Client: " \o e.msg)
  ELSE Ret(<<Error("Unexpected error occurred: " \o e.msg)>>,
           "Unexpected error occurred: " \o e.msg)

(***************************************************************************)
(* Tool requests.  A parameter the caller leaves out is Omitted and takes  *)
(* the default of the function signature.                                  *)
(***************************************************************************)
Omitted == [t |-> "omitted", v |-> ""]

Param(x, default) == IF x = Omitted THEN default ELSE x

NoParams ==
  [spotify_uri |-> Omitted, num_skips |-> Omitted, query |-> Omitted,
   qtype |-> Omitted, limit |-> Omitted, track_id |-> Omitted,
   item_uri |-> Omitted, playlist_id |-> Omitted, track_ids |-> Omitted,
   name |-> Omitted, description |-> Omitted]

Request(tool, action, p) == [tool |-> tool, action |-> action, p |-> p]

NoReq == Request("", "", NoParams)

\* the default of num_skips and of limit in the signatures
SignatureSkips == 1
SignatureLimit == 10

\* the function up to its first adapter call, on the bound parameters
Body(r) ==
  CASE r.tool = "Playback" ->
         PlaybackBody(r.action, Param(r.p.spotify_uri, None),
                      Param(r.p.num_skips, PyInt(SignatureSkips)))
    [] r.tool = "Search" ->
         SearchBody(r.p.query.v, Param(r.p.qtype, PyS("track")),
                    Param(r.p.limit, PyInt(SignatureLimit)))
    [] r.tool = "Queue" -> QueueBody(r.action, Param(r.p.track_id, None))
    [] r.tool = "GetInfo" -> GetInfoBody(r.p.item_uri.v)
    [] OTHER ->
         PlaylistBody(r.action, Param(r.p.playlist_id, None),
                      Param(r.p.track_ids, None), Param(r.p.name, None),
                      Param(r.p.description, None))

Resume(r, result) ==
  CASE r.tool = "Playback" -> PlaybackResume(r.action, result)
    [] r.tool = "Search" -> SearchResume(result)
    [] r.tool = "Queue" -> QueueResume(r.action, result)
    [] r.tool = "GetInfo" -> GetInfoResume(result)
    [] OTHER -> PlaylistResume(r.action, result)

Except(r, e) ==
  CASE r.tool = "Playback" -> PlaybackExcept(e)
    [] r.tool = "Search" -> SearchExcept(e)
    [] r.tool = "Queue" -> QueueExcept(e)
    [] r.tool = "GetInfo" -> GetInfoExcept(e)
    [] OTHER -> PlaylistExcept(e)

\* a piece of the try block that raises runs the except clauses
Settle(r, piece) ==
  IF piece.kind = "raise"
  THEN LET h == Except(r, piece.exc) IN [h EXCEPT !.logs = piece.logs \o h.logs]
  ELSE piece

(***************************************************************************)
(* The adapter: what a call of one of its methods comes to.                *)
(***************************************************************************)
Track == PyDict(<<<<"name", "Song">>>>)

\* the methods whose result the tool serializes
DataMethods ==
  {"get_current_track", "search", "get_queue", "get_info",
   "get_current_user_playlists", "get_playlist_tracks"}

Results(method) == IF method \in DataMethods THEN {None, Track, Obj} ELSE {None}

Msgs == {"http status: 401"}

\* SpotifyException, and ValueError for the exceptions of any other class
AdapterExceptions == {Exc(c, m) : c \in {"SpotifyException", "ValueError"}, m \in Msgs}

Returned(result) == [kind |-> "ok", val |-> result, exc |-> NoExc]
Raised(e) == [kind |-> "raise", val |-> None, exc |-> e]
NoOutcome == [kind |-> "", val |-> None, exc |-> NoExc]

(***************************************************************************)
(* What callers send.                                                      *)
(***************************************************************************)
Workers == {"w1", "w2"}

\* an optional str parameter: left out, empty, or a text
OptStr(s) == {Omitted, PyS(""), PyS(s)}

PlaybackRequests ==
  {Request("Playback", a, NoParams) : a \in {"get", "pause", "stop", "GET", ""}}
  \cup {Request("Playback", "start", [NoParams EXCEPT !.spotify_uri = u]) :
          u \in OptStr("spotify:track:1")}
  \cup {Request("Playback", "skip", [NoParams EXCEPT !.num_skips = n]) :
          n \in {Omitted, None} \cup {PyInt(k) : k \in 0..MaxSkips}}

SearchRequests ==
  {Request("Search", "", [NoParams EXCEPT !.query = PyS("jazz"), !.qtype = q,
                                        !.limit = l]) :
     q \in {None} \cup OptStr("album"), l \in {Omitted, None, PyInt(0), PyInt(5)}}

QueueRequests ==
  {Request("Queue", a, NoParams) : a \in {"get", "clear", "Add"}}
  \cup {Request("Queue", "add", [NoParams EXCEPT !.track_id = t]) :
          t \in OptStr("t1")}

GetInfoRequests ==
  {Request("GetInfo", "", [NoParams EXCEPT !.item_uri = PyS("spotify:album:1")])}

TrackIds == {"a", "b"}

\* the lists of at most MaxLen track ids, and one list of two
TrackLists ==
  UNION {{PyList(q) : q \in [1..n -> {PyS(t) : t \in TrackIds}]} : n \in 0..MaxLen}
  \cup {PyList(<<PyS("a"), PyS("b")>>)}

RECURSIVE JoinQuoted(_)
JoinQuoted(q) ==
  "\"" \o Head(q).v \o "\"" \o (IF Len(q) = 1 THEN "" ELSE ", " \o JoinQuoted(Tail(q)))

\* the JSON array text of a list of track ids, as json.dumps writes it
JsonArrayText(l) == IF l.v = <<>> THEN "[]" ELSE "[" \o JoinQuoted(l.v) \o "]"

\* a text cut short by its last character, by its first, and without blanks
Mangled(s) ==
  {SubSeq(s, 1, Len(s) - 1), SubSeq(s, 2, Len(s)),
   IF Len(s) > 8 THEN SubSeq(s, 1, 5) \o SubSeq(s, 7, Len(s)) ELSE s}

\* texts a caller passes as track_ids: the JSON arrays of the lists, those
\* arrays mangled, the empty text, a JSON string, a JSON number
TrackTexts ==
  {JsonArrayText(l) : l \in TrackLists}
  \cup UNION {Mangled(JsonArrayText(l)) : l \in TrackLists}
  \cup {"", "\"a\"", "7"}

TrackArgs == {Omitted} \cup TrackLists \cup {PyS(s) : s \in TrackTexts}

PlaylistRequests ==
  {Request("Playlist", a, NoParams) : a \in {"get", "rename", "add"}}
  \cup {Request("Playlist", "get_tracks", [NoParams EXCEPT !.playlist_id = p]) :
          p \in OptStr("p1")}
  \cup {Request("Playlist", a, [NoParams EXCEPT !.playlist_id = p, !.track_ids = t]) :
          a \in {"add_tracks", "remove_tracks"}, p \in OptStr("p1"), t \in TrackArgs}
  \cup {Request("Playlist", "change_details",
                [NoParams EXCEPT !.playlist_id = p, !.name = n, !.description = d]) :
          p \in OptStr("p1"), n \in OptStr("Mix"), d \in OptStr("for the road")}

(***************************************************************************)
(* State.  Each worker of the transport serves one invocation at a time;   *)
(* pc is where it stands: idle, inside the adapter call, returned, or      *)
(* raised (the exception left the tool function).  log, calls, resp and    *)
(* outcome belong to the worker's current invocation.                      *)
(***************************************************************************)
VARIABLES
  pc,            \* worker -> "idle" | "calling" | "returned" | "raised"
  req,           \* worker -> the request being served
  log,           \* worker -> the entries the invocation wrote to the logger
  calls,         \* worker -> the adapter calls the invocation made
  resp,          \* worker -> the string the tool function returned
  outcome,       \* worker -> what the adapter call came to
  invocations,   \* history: tool invocations begun
  adapterCalls,  \* history: adapter methods invoked
  validated      \* history: invocations whose request passes validation

vars == <<pc, req, log, calls, resp, outcome, invocations, adapterCalls, validated>>

\* the request names a known action and carries what the action requires
PassesValidation(r) ==
  LET p == r.p
      present(x) == x # Omitted /\ Truthy(x)
  IN
  CASE r.tool = "Playback" -> r.action \in {"get", "start", "pause", "skip"}
    [] r.tool = "Search" -> TRUE
    [] r.tool = "GetInfo" -> TRUE
    [] r.tool = "Queue" ->
         r.action = "get" \/ (r.action = "add" /\ present(p.track_id))
    [] OTHER ->
         \/ r.action = "get"
         \/ r.action = "get_tracks" /\ present(p.playlist_id)
         \/ /\ r.action \in {"add_tracks", "remove_tracks"}
            /\ present(p.playlist_id)
            /\ present(p.track_ids)
            /\ (p.track_ids.t = "str" => JsonLoads(p.track_ids.v).ok)
         \/ /\ r.action = "change_details"
            /\ present(p.playlist_id)
            /\ (present(p.name) \/ present(p.description))

Init ==
  /\ pc = [w \in Workers |-> "idle"]
  /\ req = [w \in Workers |-> NoReq]
  /\ log = [w \in Workers |-> <<>>]
  /\ calls = [w \in Workers |-> <<>>]
  /\ resp = [w \in Workers |-> ""]
  /\ outcome = [w \in Workers |-> NoOutcome]
  /\ invocations = 0
  /\ adapterCalls = 0
  /\ validated = 0

\* the worker takes in what a piece of the tool function came to
Advance(w, piece) ==
  /\ log' = [log EXCEPT ![w] = @ \o piece.logs]
  /\ resp' = [resp EXCEPT ![w] = piece.resp]
  /\ pc' = [pc EXCEPT ![w] = CASE piece.kind = "call" -> "calling"
                               [] piece.kind = "return" -> "returned"
                               [] OTHER -> "raised"]
  /\ calls' = [calls EXCEPT ![w] =
                 IF piece.kind = "call"
                 THEN Append(@, [method |-> piece.method, args |-> piece.args])
                 ELSE @]
  /\ adapterCalls' = adapterCalls + (IF piece.kind = "call" THEN 1 ELSE 0)

\* a tool function is entered with request r and runs to its adapter call,
\* or to its return when it makes none
Invoke(w, r) ==
  /\ pc[w] # "calling"
  /\ invocations < MaxInvocations
  /\ req' = [req EXCEPT ![w] = r]
  /\ outcome' = [outcome EXCEPT ![w] = NoOutcome]
  /\ LET piece == Settle(r, Body(r)) IN
     /\ log' = [log EXCEPT ![w] = piece.logs]
     /\ resp' = [resp EXCEPT ![w] = piece.resp]
     /\ pc' = [pc EXCEPT ![w] = CASE piece.kind = "call" -> "calling"
                                  [] piece.kind = "return" -> "returned"
                                  [] OTHER -> "raised"]
     /\ calls' = [calls EXCEPT ![w] =
                    IF piece.kind = "call"
                    THEN <<[method |-> piece.method, args |-> piece.args]>>
                    ELSE <<>>]
     /\ adapterCalls' = adapterCalls + (IF piece.kind = "call" THEN 1 ELSE 0)
  /\ invocations' = invocations + 1
  /\ validated' = validated + (IF PassesValidation(r) THEN 1 ELSE 0)

InvokePlayback(w) == \E r \in PlaybackRequests : Invoke(w, r)

InvokeSearch(w) == \E r \in SearchRequests : Invoke(w, r)

InvokeQueue(w) == \E r \in QueueRequests : Invoke(w, r)

InvokeGetInfo(w) == \E r \in GetInfoRequests : Invoke(w, r)

InvokePlaylist(w) == \E r \in PlaylistRequests : Invoke(w, r)

\* the pending adapter call returns: the rest of the try block runs
AdapterReturns(w) ==
  /\ pc[w] = "calling"
  /\ \E result \in Results(calls[w][Len(calls[w])].method) :
       /\ outcome' = [outcome EXCEPT ![w] = Returned(result)]
       /\ Advance(w, Settle(req[w], Resume(req[w], result)))
  /\ UNCHANGED <<req, invocations, validated>>

\* the pending adapter call raises: the except clauses run
AdapterRaises(w) ==
  /\ pc[w] = "calling"
  /\ \E e \in AdapterExceptions :
       /\ outcome' = [outcome EXCEPT ![w] = Raised(e)]
       /\ Advance(w, Settle(req[w], Raise(<<>>, e)))
  /\ UNCHANGED <<req, invocations, validated>>

\* one worker: the invocations of a behaviour follow one another
Next ==
  \/ InvokePlayback("w1")
  \/ InvokeSearch("w1")
  \/ InvokeQueue("w1")
  \/ InvokeGetInfo("w1")
  \/ InvokePlaylist("w1")
  \/ AdapterReturns("w1")
  \/ AdapterRaises("w1")

Spec == Init /\ [][Next]_vars

\* the lists of at most one track id
PoolLists == {l \in TrackLists : Len(l.v) <= 1}

\* requests of every tool, with and without what the action requires
PoolRequests ==
  {Request("Playback", a, NoParams) : a \in {"get", "skip", "stop"}}
  \cup {Request("Search", "", [NoParams EXCEPT !.query = PyS("jazz")])}
  \cup {Request("Queue", "add", [NoParams EXCEPT !.track_id = t]) :
          t \in {Omitted, PyS("t1")}}
  \cup GetInfoRequests
  \cup {Request("Playlist", "add_tracks",
                [NoParams EXCEPT !.playlist_id = PyS("p1"), !.track_ids = t]) :
          t \in {Omitted, PyS("[\"a\"")} \cup PoolLists
                 \cup {PyS(JsonArrayText(l)) : l \in PoolLists}}
  \cup {Request("Playlist", "change_details",
                [NoParams EXCEPT !.playlist_id = PyS("p1"), !.name = n]) :
          n \in {Omitted, PyS("Mix")}}

InvokePooled(w) == \E r \in PoolRequests : Invoke(w, r)

\* the transport serves invocations on several workers at once
NextPool ==
  \E w \in Workers :
    \/ InvokePooled(w)
    \/ AdapterReturns(w)
    \/ AdapterRaises(w)

SpecPool == Init /\ [][NextPool]_vars

TypeOK ==
  /\ \A w \in Workers : pc[w] \in {"idle", "calling", "returned", "raised"}
  /\ invocations \in 0..MaxInvocations

(***************************************************************************)
(* Properties.                                                             *)
(***************************************************************************)
StartsWith(s, prefix) ==
  Len(s) >= Len(prefix) /\ SubSeq(s, 1, Len(prefix)) = prefix

\* the first index at which sub occurs in s, 0 when it does not
IndexOf(s, sub) ==
  LET at == {i \in 1..(Len(s) - Len(sub) + 1) : SubSeq(s, i, i + Len(sub) - 1) = sub}
  IN IF at = {} THEN 0 ELSE CHOOSE i \in at : \A j \in at : i <= j

Contains(s, sub) == IndexOf(s, sub) # 0

RECURSIVE Split(_, _)
\* the pieces of s between occurrences of sep
Split(s, sep) ==
  LET i == IndexOf(s, sep) IN
  IF i = 0 THEN {s}
  ELSE {SubSeq(s, 1, i - 1)} \cup Split(SubSeq(s, i + Len(sep), Len(s)), sep)

\* the action names a response lists after "Supported actions are: "
Enumerated(s) ==
  LET marker == "Supported actions are: "
      i == IndexOf(s, marker)
  IN IF i = 0 \/ SubSeq(s, Len(s), Len(s)) # "." THEN {}
     ELSE UNION {Split(piece, " and ") :
                   piece \in Split(SubSeq(s, i + Len(marker), Len(s) - 1), ", ")}

\* the actions each tool documents
ValidActions(tool) ==
  CASE tool = "Playback" -> {"get", "start", "pause", "skip"}
    [] tool = "Queue" -> {"add", "get"}
    [] tool = "Playlist" ->
         {"get", "get_tracks", "add_tracks", "remove_tracks", "change_details"}
    [] OTHER -> {}

ErrorCount(l) == Cardinality({i \in DOMAIN l : l[i].level = "ERROR"})

\* the parameter is absent or empty
Missing(x) == x = Omitted \/ ~Truthy(x)

\* the invocation of worker w returned msg without calling the adapter
Rejected(w, msg) == pc[w] = "returned" /\ calls[w] = <<>> /\ resp[w] = msg

VendorRaised(w) ==
  outcome[w].kind = "raise" /\ outcome[w].exc.cls = "SpotifyException"

OtherRaised(w) ==
  outcome[w].kind = "raise" /\ outcome[w].exc.cls # "SpotifyException"

\* C1: whatever the parameters and whatever the adapter call comes to (a
\* result, a vendor exception, any other exception), no exception leaves a
\* tool function: once the adapter call is over the tool has returned.
C1_AlwaysReturns ==
  \A w \in Workers :
    /\ pc[w] # "raised"
    /\ outcome[w] # NoOutcome => pc[w] = "returned"

C1_Witness ==
  \E w \in Workers :
    /\ req[w].tool = "Playlist"
    /\ OtherRaised(w)
    /\ pc[w] = "returned"

\* C2 as stated: a vendor exception with message m is answered by
\* "error occurred with the Spotify Client: " followed by m, any other
\* exception by "Unexpected error occurred: " followed by m.
C2_Original ==
  \A w \in Workers :
    /\ VendorRaised(w) =>
         resp[w] = "error occurred with the Spotify Client: " \o outcome[w].exc.msg
    /\ OtherRaised(w) =>
         resp[w] = "Unexpected error occurred: " \o outcome[w].exc.msg

\* C2 as amended: the vendor format is "An error occurred with the Spotify
\* Client: " followed by m, the other format "Unexpected error occurred: "
\* followed by m, and neither class of exception yields the other's format.
C2_TwoFormats ==
  \A w \in Workers :
    /\ VendorRaised(w) =>
         /\ resp[w] = "An error occurred with the Spotify Client: "
                        \o outcome[w].exc.msg
         /\ ~StartsWith(resp[w], "Unexpected error occurred: ")
    /\ OtherRaised(w) =>
         /\ resp[w] = "Unexpected error occurred: " \o outcome[w].exc.msg
         /\ ~Contains(resp[w], "error occurred with the Spotify Client: ")

C2_Witness ==
  \E w \in Workers :
    /\ req[w].tool = "Queue"
    /\ VendorRaised(w)
    /\ pc[w] = "returned"

\* C3: an action outside the tool's valid actions is answered, without any
\* adapter call and without raising, by a string that lists exactly the
\* tool's valid actions.
C3_UnknownActionListsValid ==
  \A w \in Workers :
    (/\ req[w].tool \in {"Playback", "Queue", "Playlist"}
     /\ req[w].action \notin ValidActions(req[w].tool))
    => /\ pc[w] = "returned"
       /\ calls[w] = <<>>
       /\ StartsWith(resp[w], "Unknown ")
       /\ Enumerated(resp[w]) = ValidActions(req[w].tool)

C3_Witness ==
  \E w \in Workers :
    /\ req[w].tool = "Playback"
    /\ req[w].action = "stop"
    /\ pc[w] = "returned"

\* C4: Queue add without a track id (absent or empty) returns the
\* required-field error and makes no adapter call.
C4_QueueAddNeedsTrack ==
  \A w \in Workers :
    (/\ req[w].tool = "Queue"
     /\ req[w].action = "add"
     /\ Missing(req[w].p.track_id))
    => Rejected(w, "track_id is required for add action")

C4_Witness ==
  \E w \in Workers :
    /\ req[w].tool = "Queue"
    /\ req[w].action = "add"
    /\ req[w].p.track_id = PyS("")
    /\ pc[w] = "returned"

\* C5: a Playlist action that lacks a field it requires returns that case's
\* required-field error and makes no adapter call.
C5_PlaylistRequiredFields ==
  \A w \in Workers :
    req[w].tool = "Playlist" =>
      LET a == req[w].action
          p == req[w].p
      IN
      /\ (a = "get_tracks" /\ Missing(p.playlist_id)) =>
           Rejected(w, "playlist_id is required for get_tracks action.")
      /\ (a = "add_tracks" /\ (Missing(p.playlist_id) \/ Missing(p.track_ids))) =>
           Rejected(w, "playlist_id and track_ids are required for add_tracks action.")
      /\ (a = "remove_tracks" /\ (Missing(p.playlist_id) \/ Missing(p.track_ids))) =>
           Rejected(w, "playlist_id and track_ids are required for remove_tracks action.")
      /\ (a = "change_details" /\ Missing(p.playlist_id)) =>
           Rejected(w, "playlist_id is required for change_details action.")
      /\ (/\ a = "change_details"
          /\ ~Missing(p.playlist_id)
          /\ Missing(p.name)
          /\ Missing(p.description)) =>
           Rejected(w, "At least one of name or description is required.")

C5_Witness ==
  \E w \in Workers :
    /\ req[w].tool = "Playlist"
    /\ req[w].action = "change_details"
    /\ req[w].p.playlist_id = PyS("p1")
    /\ req[w].p.name = PyS("")
    /\ req[w].p.description = Omitted
    /\ pc[w] = "returned"

\* C6: two add_tracks invocations for the same playlist, one given a list of
\* track ids and the other the JSON array text of that list, make the same
\* adapter call and return the same response when the adapter answers both
\* alike.
C6_TextEquivalentToList ==
  \A w1, w2 \in Workers :
    LET r1 == req[w1]
        r2 == req[w2]
    IN
    (/\ r1.tool = "Playlist" /\ r1.action = "add_tracks"
     /\ r2.tool = "Playlist" /\ r2.action = "add_tracks"
     /\ r1.p.playlist_id = r2.p.playlist_id
     /\ r2.p.track_ids.t = "list"
     /\ r1.p.track_ids = PyS(JsonArrayText(r2.p.track_ids))
     /\ outcome[w1] = outcome[w2])
    => /\ pc[w1] = pc[w2]
       /\ calls[w1] = calls[w2]
       /\ resp[w1] = resp[w2]

\* a track_ids text that is not empty and that json.loads rejects
Malformed(x) == x.t = "str" /\ x.v # "" /\ ~JsonLoads(x.v).ok

\* C7 as stated: add_tracks or remove_tracks with a non-empty track_ids text
\* that is not valid JSON returns the must-be-a-list-or-JSON-array error
\* without raising and without an adapter call.
C7_Original ==
  \A w \in Workers :
    (/\ req[w].tool = "Playlist"
     /\ req[w].action \in {"add_tracks", "remove_tracks"}
     /\ Malformed(req[w].p.track_ids))
    => Rejected(w, "Error: track_ids must be a list or a valid JSON array.")

\* C7 as amended: the same, for invocations that carry a playlist id.
C7_MalformedTextRejected ==
  \A w \in Workers :
    (/\ req[w].tool = "Playlist"
     /\ req[w].action \in {"add_tracks", "remove_tracks"}
     /\ ~Missing(req[w].p.playlist_id)
     /\ Malformed(req[w].p.track_ids))
    => Rejected(w, "Error: track_ids must be a list or a valid JSON array.")

C7_Witness ==
  \E w \in Workers :
    /\ req[w].tool = "Playlist"
    /\ req[w].action = "remove_tracks"
    /\ req[w].p.playlist_id = PyS("p1")
    /\ req[w].p.track_ids = PyS("[\"a\"")
    /\ pc[w] = "returned"

\* C8: an invocation makes at most one adapter call, and exactly one when
\* its request passes validation; a call that raised is not made again; the
\* adapter calls made so far are as many as the invocations that passed
\* validation, and never more than the invocations.
C8_OneAdapterCall ==
  /\ \A w \in Workers :
       /\ Len(calls[w]) <= 1
       /\ pc[w] # "idle" =>
            Len(calls[w]) = (IF PassesValidation(req[w]) THEN 1 ELSE 0)
  /\ adapterCalls = validated
  /\ adapterCalls <= invocations

C8_Witness ==
  \E w1, w2 \in Workers :
    /\ pc[w1] = "calling"
    /\ pc[w2] = "returned"
    /\ VendorRaised(w2)
    /\ adapterCalls = 2

\* C9: when the adapter call raises a vendor exception the response contains
\* the exception's message and the invocation has written exactly one
\* error-level log entry, after the call and before it returns.
C9_VendorErrorLoggedOnce ==
  \A w \in Workers :
    /\ pc[w] = "calling" => ErrorCount(log[w]) = 0
    /\ VendorRaised(w) =>
         /\ pc[w] = "returned"
         /\ Contains(resp[w], outcome[w].exc.msg)
         /\ ErrorCount(log[w]) = 1
         /\ log[w][Len(log[w])].level = "ERROR"

C9_Witness ==
  \E w \in Workers :
    /\ req[w].tool = "Search"
    /\ VendorRaised(w)
    /\ pc[w] = "returned"

\* C10: Playback skip calls skip_track once with n the num_skips the caller
\* supplied, n = 1 when the caller supplied none, and on success returns the
\* skip confirmation.
C10_SkipCount ==
  \A w \in Workers :
    (req[w].tool = "Playback" /\ req[w].action = "skip") =>
      LET supplied == req[w].p.num_skips
          n == IF supplied \in {Omitted, None} THEN PyInt(1) ELSE supplied
      IN
      /\ calls[w] = <<[method |-> "skip_track", args |-> <<<<"n", n>>>>]>>
      /\ outcome[w].kind = "ok" => resp[w] = "Skipped to next track."

====
